---- MODULE Spec2Model ----
(***************************************************************************)
(* python_hosts/hosts.py: HostsEntry (one line of a hosts file) and Hosts  *)
(* (the ordered list of entries with exists / remove_all_matching / add /  *)
(* import_file / write / populate_entries).                                *)
(*                                                                         *)
(* A Python str is a sequence of characters.  An address is one atomic     *)
(* character (is_ipv4 / is_ipv6 are external validators, utils.py): the    *)
(* token <<"10.0.0.1">> is the string "10.0.0.1".  A host name is a        *)
(* sequence of letters, so that `name in sublist` (substring) and          *)
(* `name in entry.names` (list membership) are different tests.            *)
(***************************************************************************)
EXTENDS Integers, Sequences, FiniteSets, TLC

VARIABLES
    hosts_file,   \* content of the file at Hosts.hosts_path: one str
    entries,      \* Hosts.entries
    pc,           \* "new" before Hosts.__init__ ran, "ready" after it, "failed" once a
                  \* call has raised an exception (nothing catches it: the run ends)
    call,         \* the last call: its name, its arguments, entries before it
    ret           \* what the last call returned, or the exception it raised

vars == <<hosts_file, entries, pc, call, ret>>

(***************************************************************************)
(* Bounds of the model.                                                    *)
(***************************************************************************)
MaxEntries == 2   \* entries of a collection the model starts an operation from
MaxBatch == 2     \* candidates of one add call
MaxLines == 2     \* lines of the managed file
MaxImport == 1    \* lines of an imported file

(***************************************************************************)
(* Python values.                                                          *)
(***************************************************************************)
None == <<"None">>          \* None where a str is expected
NoNames == <<None>>         \* None where a list of str is expected

\* truth value of a str-or-None, and of a list-or-None
TruthyStr(v) == v # None /\ v # <<>>
TruthyList(v) == v # NoNames /\ v # <<>>

Range(s) == {s[i] : i \in 1..Len(s)}

SeqsUpTo(S, n) == UNION {[1..k -> S] : k \in 0..n}

RECURSIVE SelectSeqBy(_, _)
\* [x for x in s if keep[x]] with keep a set
SelectSeqBy(s, keep) ==
    IF s = <<>> THEN <<>>
    ELSE (IF Head(s) \in keep THEN <<Head(s)>> ELSE <<>>) \o SelectSeqBy(Tail(s), keep)

(***************************************************************************)
(* Characters and str methods.                                             *)
(***************************************************************************)
IPv4Addresses == {"127.0.0.1", "0.0.0.0", "10.0.0.1", "10.0.0.2"}
IPv6Addresses == {"fe80::1"}
Letters == {"a", "b"}
Whitespace == {" ", "\t", "\n"}

RECURSIVE lstrip(_)
lstrip(s) == IF s # <<>> /\ Head(s) \in Whitespace THEN lstrip(Tail(s)) ELSE s

RECURSIVE rstrip(_)
rstrip(s) ==
    IF s # <<>> /\ s[Len(s)] \in Whitespace THEN rstrip(SubSeq(s, 1, Len(s) - 1)) ELSE s

strip(s) == rstrip(lstrip(s))

RECURSIVE SplitFrom(_, _)
\* str.split(): cur is the token being read, s what is left of the string
SplitFrom(cur, s) ==
    IF s = <<>> THEN (IF cur = <<>> THEN <<>> ELSE <<cur>>)
    ELSE IF Head(s) \in Whitespace
         THEN (IF cur = <<>> THEN <<>> ELSE <<cur>>) \o SplitFrom(<<>>, Tail(s))
         ELSE SplitFrom(Append(cur, Head(s)), Tail(s))

split(s) == SplitFrom(<<>>, s)

RECURSIVE partition_head(_, _)
\* s.partition(c)[0]: what comes before the first c
partition_head(s, c) ==
    IF s = <<>> \/ Head(s) = c THEN <<>> ELSE <<Head(s)>> \o partition_head(Tail(s), c)

startswith(s, c) == s # <<>> /\ Head(s) = c

\* `n in h` for two str: n is a substring of h
str_contains(h, n) ==
    \E i \in 1..(Len(h) - Len(n) + 1) : SubSeq(h, i, i + Len(n) - 1) = n

RECURSIVE join(_, _)
\* sep.join(names)
join(sep, names) ==
    IF names = <<>> THEN <<>>
    ELSE IF Len(names) = 1 THEN Head(names)
    ELSE Head(names) \o sep \o join(sep, Tail(names))

RECURSIVE dedupe_list(_)
dedupe_list(seq) ==
    IF seq = <<>> THEN <<>>
    ELSE LET init == dedupe_list(SubSeq(seq, 1, Len(seq) - 1))
             x == seq[Len(seq)]
         IN IF x \in Range(init) THEN init ELSE Append(init, x)

(***************************************************************************)
(* utils.py (not part of the source tree): the validators.                 *)
(***************************************************************************)
is_ipv4(s) == Len(s) = 1 /\ s[1] \in IPv4Addresses
is_ipv6(s) == Len(s) = 1 /\ s[1] \in IPv6Addresses

\* every name is one label of 1..255 characters of [A-Za-z0-9-]
valid_hostnames(names) ==
    \A i \in 1..Len(names) :
        /\ Len(names[i]) >= 1
        /\ Len(names[i]) <= 255
        /\ Range(names[i]) \subseteq Letters

(***************************************************************************)
(* HostsEntry.                                                             *)
(***************************************************************************)
Entry(entry_type, address, comment, names) ==
    [entry_type |-> entry_type, address |-> address, comment |-> comment, names |-> names]

NoEntry == Entry("None", None, None, NoNames)

\* what a call gives back: status "ok" with its value, or the exception raised
Ok(v) == [status |-> "ok", value |-> v]
Raise(exc) == [status |-> exc, value |-> NoEntry]

\* HostsEntry.__init__ without the tests of address and names
HostsEntry_unchecked(entry_type, address, comment, names) ==
    IF entry_type \notin {"ipv4", "ipv6", "comment", "blank"}
    THEN Raise("Exception")
    ELSE IF entry_type = "comment" /\ ~TruthyStr(comment)
    THEN Raise("Exception")
    ELSE Ok(Entry(entry_type, address, comment, names))

\* HostsEntry.__init__
HostsEntry(entry_type, address, comment, names) ==
    IF entry_type \notin {"ipv4", "ipv6", "comment", "blank"}
    THEN Raise("Exception")
    ELSE IF entry_type = "comment" /\ ~TruthyStr(comment)
    THEN Raise("Exception")
    ELSE IF entry_type = "ipv4" /\ ~(TruthyStr(address) /\ TruthyList(names))
    THEN Raise("Exception")
    ELSE IF entry_type = "ipv4" /\ ~is_ipv4(address)
    THEN Raise("InvalidIPv4Address")
    ELSE IF entry_type = "ipv6" /\ ~(TruthyStr(address) /\ TruthyList(names))
    THEN Raise("Exception")
    ELSE IF entry_type = "ipv6" /\ ~is_ipv6(address)
    THEN Raise("InvalidIPv6Address")
    ELSE Ok(Entry(entry_type, address, comment, names))

\* HostsEntry.get_entry_type: "None" when the function falls off its end
get_entry_type(hosts_entry) ==
    IF ~TruthyStr(hosts_entry) THEN "None"
    ELSE LET entry == strip(hosts_entry)
         IN IF entry = <<>> THEN "blank"
            ELSE IF entry[1] = "#" THEN "comment"
            ELSE LET entry_chunks == split(entry)
                 IN IF is_ipv6(entry_chunks[1]) THEN "ipv6"
                    ELSE IF is_ipv4(entry_chunks[1]) THEN "ipv4"
                    ELSE "None"

\* HostsEntry.str_to_hostentry: status "None" / "False" are its two falsy returns
str_to_hostentry(entry) ==
    LET line_parts == split(strip(entry))
        names == SubSeq(line_parts, 2, Len(line_parts))
    IN IF line_parts = <<>> THEN Raise("IndexError")
       ELSE IF is_ipv4(line_parts[1])
       THEN (IF valid_hostnames(names)
             THEN HostsEntry("ipv4", line_parts[1], None, names)
             ELSE Raise("None"))
       ELSE IF is_ipv6(line_parts[1])
       THEN (IF valid_hostnames(names)
             THEN HostsEntry("ipv6", line_parts[1], None, names)
             ELSE Raise("None"))
       ELSE Raise("False")

(***************************************************************************)
(* Hosts: the query and the removal.                                       *)
(***************************************************************************)
RECURSIVE exists(_, _, _)
\* Hosts.exists over self.entries = es: "True", "False", or the exception
\* `name in entry.names` raises when entry.names is None
exists(es, address, names) ==
    IF es = <<>> THEN "False"
    ELSE LET entry == Head(es)
         IN IF TruthyStr(address) /\ address = entry.address THEN "True"
            ELSE IF TruthyList(names)
            THEN (IF entry.names = NoNames THEN "TypeError"
                  ELSE IF \E i \in 1..Len(names) : names[i] \in Range(entry.names)
                  THEN "True"
                  ELSE exists(Tail(es), address, names))
            ELSE exists(Tail(es), address, names)

\* the entries the list comprehensions of remove_all_matching select
to_remove(es, address, name) ==
    IF TruthyStr(address) /\ TruthyStr(name)
    THEN {x \in Range(es) : x.address = address /\ name \in Range(x.names)}
    ELSE IF TruthyStr(address)
    THEN {x \in Range(es) : x.address = address}
    ELSE IF TruthyStr(name)
    THEN {x \in Range(es) : name \in Range(x.names)}
    ELSE {}

\* whether a list comprehension of remove_all_matching evaluates
\* `name in x.names` on an entry whose names is None
remove_raises(es, address, name) ==
    IF TruthyStr(address) /\ TruthyStr(name)
    THEN \E x \in Range(es) : x.address = address /\ x.names = NoNames
    ELSE IF TruthyStr(address) THEN FALSE
    ELSE IF TruthyStr(name) THEN \E x \in Range(es) : x.names = NoNames
    ELSE FALSE

\* Hosts.remove_all_matching over self.entries = es
remove_all_matching(es, address, name) ==
    IF remove_raises(es, address, name)
    THEN [status |-> "TypeError", entries |-> es]
    ELSE [status |-> "ok",
          entries |-> SelectSeqBy(es, Range(es) \ to_remove(es, address, name))]

(***************************************************************************)
(* Hosts.add.                                                              *)
(***************************************************************************)
BlockAddresses == {<<"0.0.0.0">>, <<"127.0.0.1">>}

\* existing_addresses: [x.address for x in self.entries if x.address]
existing_addresses(es) == {es[i].address : i \in {j \in 1..Len(es) : TruthyStr(es[j].address)}}

RECURSIVE all_names(_)
\* the names of the entries that have some, in order
all_names(es) ==
    IF es = <<>> THEN <<>>
    ELSE (IF TruthyList(Head(es).names) THEN Head(es).names ELSE <<>>) \o all_names(Tail(es))

\* existing_names: the names of self.entries, deduplicated
existing_names(es) == dedupe_list(all_names(es))

\* the state of the loop over the candidates: self.entries, import_entries, two
\* counters, and flow: "run", "break" (the loop was left), or the exception raised
LoopState(es) ==
    [entries |-> es, import_entries |-> <<>>, duplicate_count |-> 0,
     replaced_count |-> 0, flow |-> "run"]

\* index of the first name of names that is in existing, 0 if none
first_found(names, existing) ==
    IF \E i \in 1..Len(names) : names[i] \in Range(existing)
    THEN CHOOSE i \in 1..Len(names) :
            /\ names[i] \in Range(existing)
            /\ \A j \in 1..(i - 1) : names[j] \notin Range(existing)
    ELSE 0

\* a candidate with a block address (the branch of '0.0.0.0' and '127.0.0.1')
add_block(st, entry, existing, force) ==
    IF Len(entry.names) > 1
    THEN LET i == first_found(entry.names, existing)
         IN IF i = 0
            THEN [st EXCEPT !.import_entries = Append(@, entry)]
            ELSE IF force
            THEN LET r == remove_all_matching(st.entries, None, entry.names[i])
                 IN IF r.status # "ok"
                    THEN [st EXCEPT !.flow = r.status]
                    ELSE [st EXCEPT !.entries = r.entries,
                                    !.import_entries = Append(@, entry),
                                    !.flow = "break"]
            ELSE [st EXCEPT !.duplicate_count = @ + 1, !.flow = "break"]
    ELSE IF entry.names[1] \in Range(existing)
    THEN [st EXCEPT !.duplicate_count = @ + 1]
    ELSE [st EXCEPT !.import_entries = Append(@, entry)]

\* add_known_address with the removal left out of the force branch, and the
\* candidate appended although it was counted as a duplicate
add_known_address_keeps(st, entry, force) ==
    IF ~force
    THEN [st EXCEPT !.duplicate_count = @ + 1, !.import_entries = Append(@, entry)]
    ELSE [st EXCEPT !.replaced_count = @ + 1, !.import_entries = Append(@, entry)]

\* a candidate whose address is in existing_addresses
add_known_address(st, entry, force) ==
    IF ~force
    THEN [st EXCEPT !.duplicate_count = @ + 1]
    ELSE LET r == remove_all_matching(st.entries, entry.address, None)
         IN IF r.status # "ok"
            THEN [st EXCEPT !.flow = r.status]
            ELSE [st EXCEPT !.entries = r.entries,
                            !.replaced_count = @ + 1,
                            !.import_entries = Append(@, entry)]

RECURSIVE add_by_names(_, _, _, _, _)
\* a candidate with a new address: the loop over entry.names from index k on
add_by_names(st, entry, k, existing, force) ==
    IF k > Len(entry.names) THEN st
    ELSE LET name == entry.names[k]
         IN IF \E j \in 1..Len(existing) : str_contains(existing[j], name)
            THEN (IF ~force
                  THEN add_by_names([st EXCEPT !.duplicate_count = @ + 1],
                                    entry, k + 1, existing, force)
                  ELSE LET r == remove_all_matching(st.entries, None, name)
                       IN IF r.status # "ok"
                          THEN [st EXCEPT !.flow = r.status]
                          ELSE add_by_names([st EXCEPT !.entries = r.entries,
                                                      !.replaced_count = @ + 1,
                                                      !.import_entries = Append(@, entry)],
                                            entry, k + 1, existing, force))
            ELSE [st EXCEPT !.import_entries = Append(@, entry)]

\* one round of `for entry in entries`
add_candidate(st, entry, addresses, existing, force) ==
    IF entry.address \in BlockAddresses THEN add_block(st, entry, existing, force)
    ELSE IF entry.address \in addresses THEN add_known_address(st, entry, force)
    ELSE add_by_names(st, entry, 1, existing, force)

RECURSIVE add_loop_live(_, _, _, _, _)
\* add_loop deciding each candidate against the collection and the candidates
\* accepted so far, instead of the addresses and names taken before the loop
add_loop_live(st, batch, addresses, existing, force) ==
    IF batch = <<>> \/ st.flow # "run" THEN st
    ELSE LET seen == st.entries \o st.import_entries
         IN add_loop_live(add_candidate(st, Head(batch), existing_addresses(seen),
                                        existing_names(seen), force),
                          Tail(batch), addresses, existing, force)

RECURSIVE add_loop(_, _, _, _, _)
add_loop(st, batch, addresses, existing, force) ==
    IF batch = <<>> \/ st.flow # "run" THEN st
    ELSE add_loop(add_candidate(st, Head(batch), addresses, existing, force),
                  Tail(batch), addresses, existing, force)

\* the ipv4 / ipv6 entries of import_entries, in order
typed(items, entry_type) ==
    SelectSeqBy(items, {x \in Range(items) : x.entry_type = entry_type})

\* `for item in import_entries`: the new self.entries and the two counts
append_imported(es, import_entries) ==
    [entries |-> es \o SelectSeqBy(import_entries,
                       {x \in Range(import_entries) : x.entry_type \in {"ipv4", "ipv6"}}),
     ipv4_count |-> Len(typed(import_entries, "ipv4")),
     ipv6_count |-> Len(typed(import_entries, "ipv6"))]

\* Hosts.add over self.entries = es: the new self.entries and the counts returned
add(es, batch, force) ==
    LET st == add_loop(LoopState(es), batch, existing_addresses(es), existing_names(es), force)
        done == append_imported(st.entries, st.import_entries)
    IN IF st.flow \notin {"run", "break"}
       THEN [status |-> st.flow, entries |-> st.entries,
             ipv4_count |-> 0, ipv6_count |-> 0, invalid_count |-> 0,
             duplicate_count |-> 0, replaced_count |-> 0]
       ELSE [status |-> "ok", entries |-> done.entries,
             ipv4_count |-> done.ipv4_count, ipv6_count |-> done.ipv6_count,
             invalid_count |-> 0,
             duplicate_count |-> st.duplicate_count,
             replaced_count |-> st.replaced_count]

(***************************************************************************)
(* Hosts: reading and writing the file.                                    *)
(***************************************************************************)
RECURSIVE readlines(_, _)
\* `for line in file`: the lines of a text, each with its "\n" (the last may lack it)
readlines(cur, text) ==
    IF text = <<>> THEN (IF cur = <<>> THEN <<>> ELSE <<cur>>)
    ELSE IF Head(text) = "\n"
         THEN <<Append(cur, "\n")>> \o readlines(<<>>, Tail(text))
         ELSE readlines(Append(cur, Head(text)), Tail(text))

\* written_line with a space where write() puts the tab
written_line_space(line) ==
    IF line.entry_type = "comment" THEN line.comment
    ELSE IF line.entry_type = "blank" THEN <<"\n">>
    ELSE IF line.entry_type \in {"ipv4", "ipv6"}
    THEN line.address \o <<" ">> \o join(<<" ">>, line.names) \o <<"\n">>
    ELSE <<>>

\* what write() writes for one entry
written_line(line) ==
    IF line.entry_type = "comment" THEN line.comment
    ELSE IF line.entry_type = "blank" THEN <<"\n">>
    ELSE IF line.entry_type \in {"ipv4", "ipv6"}
    THEN line.address \o <<"\t">> \o join(<<" ">>, line.names) \o <<"\n">>
    ELSE <<>>

RECURSIVE written_text(_)
written_text(es) ==
    IF es = <<>> THEN <<>> ELSE written_line(Head(es)) \o written_text(Tail(es))

count_type(es, entry_type) == Cardinality({i \in 1..Len(es) : es[i].entry_type = entry_type})

\* Hosts.write: open(self.hosts_path, None) raises when the file exists and is
\* not writeable; written_count is the last index of enumerate (0 when empty)
write(es, writeable) ==
    IF ~writeable
    THEN [status |-> "TypeError", text |-> <<>>, total_written |-> 0,
          comments_written |-> 0, blanks_written |-> 0,
          ipv4_entries_written |-> 0, ipv6_entries_written |-> 0]
    ELSE [status |-> "ok", text |-> written_text(es),
          total_written |-> (IF es = <<>> THEN 0 ELSE Len(es) - 1) + 1,
          comments_written |-> count_type(es, "comment"),
          blanks_written |-> count_type(es, "blank"),
          ipv4_entries_written |-> count_type(es, "ipv4"),
          ipv6_entries_written |-> count_type(es, "ipv6")]

RECURSIVE strip_each(_)
strip_each(chunks) ==
    IF chunks = <<>> THEN <<>> ELSE <<strip(Head(chunks))>> \o strip_each(Tail(chunks))

\* the HostsEntry populate_entries builds for one line; status "skip" when none
populate_line(hosts_entry) ==
    LET entry_type == get_entry_type(hosts_entry)
        chunked_entry == split(hosts_entry)
    IN IF entry_type = "comment" THEN HostsEntry("comment", None, hosts_entry, NoNames)
       ELSE IF entry_type = "blank" THEN HostsEntry("blank", None, None, NoNames)
       ELSE IF entry_type \in {"ipv4", "ipv6"}
       THEN HostsEntry(entry_type, strip(chunked_entry[1]), None,
                       strip_each(Tail(chunked_entry)))
       ELSE Raise("skip")

RECURSIVE populate_from(_, _)
\* the loop of populate_entries: only IOError is caught, so an exception of
\* HostsEntry leaves the loop and the constructor of Hosts
populate_from(es, lines) ==
    IF lines = <<>> THEN [status |-> "ok", entries |-> es]
    ELSE LET r == populate_line(Head(lines))
         IN IF r.status = "ok" THEN populate_from(Append(es, r.value), Tail(lines))
            ELSE IF r.status = "skip" THEN populate_from(es, Tail(lines))
            ELSE [status |-> r.status, entries |-> es]

\* Hosts.populate_entries on a file with this text; an unreadable file is the
\* IOError that is caught
populate_entries(text, readable) ==
    IF ~readable THEN [status |-> "ok", entries |-> <<>>]
    ELSE populate_from(<<>>, readlines(<<>>, text))

RECURSIVE import_lines(_, _)
\* the loop of import_file over the lines: acc holds skipped, invalid_count,
\* import_entries and the exception raised, if any
import_lines(acc, lines) ==
    IF lines = <<>> \/ acc.status # "ok" THEN acc
    ELSE LET line == Head(lines)
             stripped_entry == strip(line)
         IN IF stripped_entry = <<>> \/ startswith(stripped_entry, "#")
            THEN import_lines([acc EXCEPT !.skipped = @ + 1], Tail(lines))
            ELSE LET import_entry == str_to_hostentry(rstrip(partition_head(line, "#")))
                 IN IF import_entry.status = "ok"
                    THEN import_lines([acc EXCEPT !.import_entries =
                                           Append(@, import_entry.value)], Tail(lines))
                    ELSE IF import_entry.status \in {"None", "False"}
                    THEN import_lines([acc EXCEPT !.invalid_count = @ + 1], Tail(lines))
                    ELSE [acc EXCEPT !.status = import_entry.status]

\* what import_file reports: status is "ok" or the exception that left the call,
\* result the 'result' of the dictionary returned; entries and wrote / text say
\* what the call did to self.entries and to the managed file
ImportOutcome(status, result, acc, counts, es, wrote, text) ==
    [status |-> status, result |-> result,
     skipped |-> acc.skipped, invalid_count |-> acc.invalid_count,
     duplicate_count |-> counts.duplicate_count,
     ipv4_count |-> counts.ipv4_count, ipv6_count |-> counts.ipv6_count,
     entries |-> es, wrote |-> wrote, text |-> text]

NoCounts ==
    [skipped |-> 0, invalid_count |-> 0, duplicate_count |-> 0,
     ipv4_count |-> 0, ipv6_count |-> 0]

\* import_file from `write_result = self.write()` on
import_written(acc, add_result, write_result) ==
    IF write_result.status # "ok"
    THEN ImportOutcome(write_result.status, "none", NoCounts, NoCounts,
                       add_result.entries, FALSE, <<>>)
    ELSE ImportOutcome("ok", "success", acc, add_result,
                       add_result.entries, TRUE, write_result.text)

\* import_file from `add_result = self.add(entries=import_entries)` on
import_added(acc, add_result, writeable) ==
    IF add_result.status # "ok"
    THEN ImportOutcome(add_result.status, "none", NoCounts, NoCounts,
                       add_result.entries, FALSE, <<>>)
    ELSE import_written(acc, add_result, write(add_result.entries, writeable))

\* import_file once the lines are read
import_read(es, acc, writeable) ==
    IF acc.status # "ok"
    THEN ImportOutcome(acc.status, "none", NoCounts, NoCounts, es, FALSE, <<>>)
    ELSE import_added(acc, add(es, acc.import_entries, FALSE), writeable)

\* Hosts.import_file over self.entries = es
import_file(es, text, readable, writeable) ==
    IF ~readable
    THEN ImportOutcome("ok", "failed", NoCounts, NoCounts, es, FALSE, <<>>)
    ELSE import_read(es,
                     import_lines([status |-> "ok", skipped |-> 0, invalid_count |-> 0,
                                   import_entries |-> <<>>], readlines(<<>>, text)),
                     writeable)

(***************************************************************************)
(* Inputs of the model.                                                    *)
(***************************************************************************)
Addresses == {<<"127.0.0.1">>, <<"10.0.0.1">>, <<"fe80::1">>}
NameLists == {<< <<"a">> >>, << <<"b">> >>, << <<"a">>, <<"b">> >>, << <<"a", "b">> >>}

\* address and names of the candidates: a block address with one and with two
\* names, an ipv4 and an ipv6 address, names that are equal to ("a", "b") or
\* contain ("ab") the names of other entries
CandidateFields ==
    {<< <<"127.0.0.1">>, << <<"a">> >> >>,
     << <<"127.0.0.1">>, << <<"b">> >> >>,
     << <<"127.0.0.1">>, << <<"a">>, <<"b">> >> >>,
     << <<"10.0.0.1">>, << <<"a">> >> >>,
     << <<"10.0.0.1">>, << <<"b">> >> >>,
     << <<"fe80::1">>, << <<"a">>, <<"b">> >> >>,
     << <<"fe80::1">>, << <<"a", "b">> >> >>}

\* the address entries HostsEntry(...) constructs from these
Candidates ==
    {r.value : r \in {x \in {HostsEntry(t, f[1], None, f[2]) :
                              t \in {"ipv4", "ipv6"}, f \in CandidateFields} :
                      x.status = "ok"}}

CommentEntry == HostsEntry("comment", None, <<"#", "a", "\n">>, NoNames).value
BlankEntry == HostsEntry("blank", None, None, NoNames).value

\* the collections an operation starts from
Collections == SeqsUpTo(Candidates \cup {CommentEntry}, MaxEntries)
CollectionsWithBlanks == SeqsUpTo(Candidates \cup {CommentEntry, BlankEntry}, MaxEntries)

NoCall == [op |-> "none"]

(***************************************************************************)
(* The calls.                                                              *)
(***************************************************************************)
\* hosts.exists(address, names)
Exists ==
    /\ pc = "ready"
    /\ \E address \in Addresses \cup {None}, names \in NameLists \cup {NoNames, <<>>} :
        /\ call' = [op |-> "exists", entries |-> entries,
                    address |-> address, names |-> names]
        /\ ret' = [status |-> exists(entries, address, names)]
        /\ pc' = IF exists(entries, address, names) = "TypeError" THEN "failed" ELSE "ready"
    /\ UNCHANGED <<hosts_file, entries>>

\* hosts.remove_all_matching(address, name)
RemoveAllMatching ==
    /\ pc = "ready"
    /\ \E address \in Addresses \cup {None}, name \in {<<"a">>, <<"b">>, <<"a", "b">>, None} :
        LET r == remove_all_matching(entries, address, name)
        IN /\ call' = [op |-> "remove_all_matching", entries |-> entries,
                       address |-> address, name |-> name]
           /\ ret' = [status |-> r.status]
           /\ entries' = r.entries
           /\ pc' = IF r.status = "ok" THEN "ready" ELSE "failed"
    /\ UNCHANGED hosts_file

\* the call hosts.add(batch, force) returns r
AddReturns(r, batch, force) ==
    /\ call' = [op |-> "add", entries |-> entries, batch |-> batch, force |-> force]
    /\ ret' = [status |-> r.status,
               ipv4_count |-> r.ipv4_count, ipv6_count |-> r.ipv6_count,
               invalid_count |-> r.invalid_count,
               duplicate_count |-> r.duplicate_count,
               replaced_count |-> r.replaced_count]
    /\ entries' = r.entries
    /\ pc' = IF r.status = "ok" THEN "ready" ELSE "failed"

\* hosts.add(batch, force)
AddCall(batch, force) ==
    /\ pc = "ready"
    /\ AddReturns(add(entries, batch, force), batch, force)
    /\ UNCHANGED hosts_file

\* one add call on a Hosts object just constructed
Add ==
    /\ call = NoCall
    /\ \E batch \in SeqsUpTo(Candidates, MaxBatch), force \in BOOLEAN : AddCall(batch, force)

\* add calls without force, one after the other, while the collection is small
AddNoForce ==
    /\ Len(entries) <= MaxEntries
    /\ \E batch \in SeqsUpTo(Candidates, MaxBatch) : AddCall(batch, FALSE)

\* a Hosts object constructed on a file that holds the lines write() writes
InitHosts(cs) ==
    /\ pc = "ready"
    /\ entries \in cs
    /\ hosts_file = written_text(entries)
    /\ call = NoCall
    /\ ret = NoCall

InitReady == InitHosts(Collections)

InitQuery == InitHosts(CollectionsWithBlanks)

InitEmpty ==
    /\ pc = "ready"
    /\ entries = <<>>
    /\ hosts_file = <<>>
    /\ call = NoCall
    /\ ret = NoCall

SpecQuery == InitQuery /\ [][Exists \/ RemoveAllMatching]_vars

SpecAdd == InitReady /\ [][Add]_vars

SpecEmpty == InitEmpty /\ [][AddNoForce]_vars

(***************************************************************************)
(* The managed file and the imported files.                                *)
(***************************************************************************)
\* lines of a hosts file: comments, blank lines, records with a space or a tab
\* after the address, a record that names a host twice, and lines with a valid
\* address and no valid name
FileLines ==
    {<<"#", "a", "\n">>,
     <<" ", "\n">>,
     <<"10.0.0.1", " ", "a", "\n">>,
     <<"127.0.0.1", "\t", "a", " ", "b", "\n">>,
     <<"fe80::1", " ", "a", " ", "a", "\n">>,
     <<"10.0.0.2", "\n">>,
     <<"10.0.0.2", " ", "#", "a", "\n">>,
     <<"10.0.0.2", " ", "_", "\n">>}

RECURSIVE concat(_)
concat(lines) == IF lines = <<>> THEN <<>> ELSE Head(lines) \o concat(Tail(lines))

\* the texts of at most n of these lines
Texts(n) == {concat(lines) : lines \in SeqsUpTo(FileLines, n)}

\* hosts = Hosts(path)
Construct ==
    /\ pc = "new"
    /\ \E readable \in BOOLEAN :
        LET r == populate_entries(hosts_file, readable)
        IN /\ call' = [op |-> "init", readable |-> readable]
           /\ ret' = [status |-> r.status]
           /\ entries' = r.entries
           /\ pc' = IF r.status = "ok" THEN "ready" ELSE "failed"
    /\ UNCHANGED hosts_file

\* hosts.write(); call.first says that no call was made since the construction
Write ==
    /\ pc = "ready"
    /\ \E writeable \in BOOLEAN :
        LET r == write(entries, writeable)
        IN /\ call' = [op |-> "write", hosts_file |-> hosts_file,
                       first |-> (call.op = "init" /\ call.readable)]
           /\ ret' = [status |-> r.status, total_written |-> r.total_written,
                      comments_written |-> r.comments_written,
                      blanks_written |-> r.blanks_written,
                      ipv4_entries_written |-> r.ipv4_entries_written,
                      ipv6_entries_written |-> r.ipv6_entries_written]
           /\ hosts_file' = IF r.status = "ok" THEN r.text ELSE hosts_file
           /\ pc' = IF r.status = "ok" THEN "ready" ELSE "failed"
    /\ UNCHANGED entries

\* the call hosts.import_file(path) returns r
ImportReturns(r, text, readable) ==
    /\ call' = [op |-> "import_file", entries |-> entries, text |-> text,
                readable |-> readable]
    /\ ret' = [status |-> r.status, result |-> r.result, skipped |-> r.skipped,
               invalid_count |-> r.invalid_count,
               duplicate_count |-> r.duplicate_count,
               ipv4_count |-> r.ipv4_count, ipv6_count |-> r.ipv6_count]
    /\ entries' = r.entries
    /\ hosts_file' = IF r.wrote THEN r.text ELSE hosts_file
    /\ pc' = IF r.status = "ok" THEN "ready" ELSE "failed"

\* hosts.import_file(path), while the collection and the imported lines together
\* are at most MaxEntries; the text of a file that cannot be read plays no part
ImportFile ==
    /\ pc = "ready"
    /\ Len(entries) + MaxImport <= MaxEntries
    /\ \E readable \in BOOLEAN, writeable \in BOOLEAN :
        \E text \in (IF readable THEN Texts(MaxImport) ELSE {<<>>}) :
            /\ (~readable => writeable)
            /\ ImportReturns(import_file(entries, text, readable, writeable),
                             text, readable)

\* before Hosts(path): the file at path holds at most MaxLines of the lines
Init ==
    /\ pc = "new"
    /\ hosts_file \in Texts(MaxLines)
    /\ entries = <<>>
    /\ call = NoCall
    /\ ret = NoCall

Next == Construct \/ Write \/ ImportFile

Spec == Init /\ [][Next]_vars

(***************************************************************************)
(* Vocabulary of the claims.                                               *)
(***************************************************************************)
HasNames(e) == e.names # NoNames

\* the names present in a collection
NamesOf(es) == UNION {Range(es[i].names) : i \in {j \in 1..Len(es) : HasNames(es[j])}}

AddressesOf(es) == {es[i].address : i \in 1..Len(es)} \ {None}

IsBlock(e) == e.address \in {<<"0.0.0.0">>, <<"127.0.0.1">>}

\* what the last add call appended behind the entries it started from
Appended == SubSeq(entries, Len(call.entries) + 1, Len(entries))

(***************************************************************************)
(* C1.  exists(address, names) is true exactly when some entry has the     *)
(* given address or holds one of the given names; it is false when neither *)
(* is given, and it never fails, whatever entries the collection holds.    *)
(***************************************************************************)
C1_Matches ==
    \E i \in 1..Len(call.entries) :
        \/ TruthyStr(call.address) /\ call.entries[i].address = call.address
        \/ /\ TruthyList(call.names)
           /\ HasNames(call.entries[i])
           /\ Range(call.names) \cap Range(call.entries[i].names) # {}

C1_ExistsIffMatch ==
    call.op = "exists" => ret.status = (IF C1_Matches THEN "True" ELSE "False")

(***************************************************************************)
(* C2.  remove_all_matching(name=n) without an address removes exactly the *)
(* entries whose names hold n and keeps the others, in order, whatever     *)
(* entries (comments, blanks) the collection holds.                        *)
(***************************************************************************)
C2_Keeps(e) == ~(HasNames(e) /\ call.name \in Range(e.names))

C2_RemoveByName ==
    (call.op = "remove_all_matching" /\ call.address = None /\ TruthyStr(call.name))
        => /\ ret.status = "ok"
           /\ entries = SelectSeq(call.entries, C2_Keeps)

(***************************************************************************)
(* C3.  Candidates whose address is not a block address and is the address *)
(* of an existing entry: without force each is counted in duplicate_count  *)
(* and entries is unchanged; with force the existing entries with such an  *)
(* address are removed, the candidates are appended at the end and each is *)
(* counted in replaced_count.  (A call with one candidate is the case the  *)
(* claim names; the formula covers every batch made of such candidates.)   *)
(***************************************************************************)
C3_KnownAddress(e) == ~IsBlock(e) /\ e.address \in AddressesOf(call.entries)

C3_Applies ==
    /\ call.op = "add"
    /\ call.batch # <<>>
    /\ \A i \in 1..Len(call.batch) : C3_KnownAddress(call.batch[i])

C3_Survives(e) == e.address \notin AddressesOf(call.batch)

C3_DuplicateOrReplace ==
    C3_Applies =>
        /\ ret.status = "ok"
        /\ ~call.force =>
            /\ ret.duplicate_count = Len(call.batch)
            /\ ret.replaced_count = 0
            /\ entries = call.entries
        /\ call.force =>
            /\ ret.replaced_count = Len(call.batch)
            /\ ret.duplicate_count = 0
            /\ entries = SelectSeq(call.entries, C3_Survives) \o call.batch

\* with force, one candidate replaced two entries that had its address
C3_Witness ==
    /\ C3_Applies
    /\ call.force
    /\ Len(call.batch) = 1
    /\ Len(call.entries) = 2
    /\ call.entries[1].address = call.batch[1].address
    /\ call.entries[2].address = call.batch[1].address
    /\ call.entries[1] # call.entries[2]
    /\ entries = call.batch
    /\ ret.replaced_count = 1

(***************************************************************************)
(* C4.  Without force every block-address candidate of the batch is        *)
(* decided by its names only: appended when none of them is in the         *)
(* collection as it was before the call, counted once in duplicate_count   *)
(* and not appended otherwise, wherever it stands in the batch.            *)
(***************************************************************************)
C4_Fresh(e) == Range(e.names) \cap NamesOf(call.entries) = {}

C4_BlockFresh(e) == IsBlock(e) /\ C4_Fresh(e)

C4_BlockByName ==
    (call.op = "add" /\ ~call.force) =>
        /\ SelectSeq(Appended, IsBlock) = SelectSeq(call.batch, C4_BlockFresh)
        /\ (\A i \in 1..Len(call.batch) : IsBlock(call.batch[i])) =>
              ret.duplicate_count =
                  Cardinality({i \in 1..Len(call.batch) : ~C4_Fresh(call.batch[i])})

(***************************************************************************)
(* C5.  One candidate with a new, non-block address: appended once and     *)
(* nothing else counted when none of its names overlaps an existing name;  *)
(* duplicate_count = 1 and not appended when some name overlaps and force  *)
(* is not set; with force the candidate is appended once and               *)
(* replaced_count = 1.  A name overlaps when it is contained in an         *)
(* existing name.                                                          *)
(***************************************************************************)
C5_Applies ==
    /\ call.op = "add"
    /\ Len(call.batch) = 1
    /\ ~IsBlock(call.batch[1])
    /\ call.batch[1].address \notin AddressesOf(call.entries)

C5_Overlap ==
    \E n \in Range(call.batch[1].names), m \in NamesOf(call.entries) : str_contains(m, n)

C5_KindCounts ==
    /\ ret.ipv4_count = (IF call.batch[1].entry_type = "ipv4" THEN 1 ELSE 0)
    /\ ret.ipv6_count = (IF call.batch[1].entry_type = "ipv6" THEN 1 ELSE 0)

C5_NewAddress ==
    C5_Applies =>
        /\ ret.status = "ok"
        /\ ~C5_Overlap =>
            /\ entries = call.entries \o call.batch
            /\ C5_KindCounts
            /\ ret.duplicate_count = 0 /\ ret.replaced_count = 0 /\ ret.invalid_count = 0
        /\ (C5_Overlap /\ ~call.force) =>
            /\ ret.duplicate_count = 1
            /\ entries = call.entries
        /\ (C5_Overlap /\ call.force) =>
            /\ ret.replaced_count = 1
            /\ C5_KindCounts
            /\ entries # <<>>
            /\ entries[Len(entries)] = call.batch[1]
            /\ \A i \in 1..(Len(entries) - 1) : entries[i] \in Range(call.entries)

(***************************************************************************)
(* C6.  Within one add call a candidate is decided against the collection  *)
(* as it was before the call, not against the candidates accepted earlier  *)
(* in the call: after candidates that are accepted outright, a candidate   *)
(* gets the outcome it gets when it is added alone to the pre-call         *)
(* collection.  What the call appends stands behind the pre-existing       *)
(* entries, in the order of the batch.                                     *)
(***************************************************************************)
RECURSIVE IsSubsequence(_, _)
\* s is t with some elements left out
IsSubsequence(s, t) ==
    IF s = <<>> THEN TRUE
    ELSE IF t = <<>> THEN FALSE
    ELSE IF Head(s) = Head(t) THEN IsSubsequence(Tail(s), Tail(t))
    ELSE IsSubsequence(s, Tail(t))

RECURSIVE InBatchOrder(_, _)
\* s takes its elements from t at indices that never decrease
InBatchOrder(s, t) ==
    IF s = <<>> THEN TRUE
    ELSE IF t = <<>> THEN FALSE
    ELSE IF Head(s) = Head(t) THEN InBatchOrder(Tail(s), t)
    ELSE InBatchOrder(s, Tail(t))

\* added alone to the pre-call collection, c is appended and nothing else happens
C6_AcceptedOutright(c) ==
    LET alone == add(call.entries, <<c>>, call.force)
    IN /\ alone.status = "ok"
       /\ alone.entries = Append(call.entries, c)
       /\ alone.duplicate_count = 0
       /\ alone.replaced_count = 0

C6_AppendedBehind ==
    \E k \in 0..Len(entries) :
        /\ IsSubsequence(SubSeq(entries, 1, k), call.entries)
        /\ InBatchOrder(SubSeq(entries, k + 1, Len(entries)), call.batch)

C6_LastAsAlone ==
    LET n == Len(call.batch)
        earlier == SubSeq(call.batch, 1, n - 1)
        alone == add(call.entries, <<call.batch[n]>>, call.force)
        copies == alone.ipv4_count + alone.ipv6_count
        kept == SubSeq(alone.entries, 1, Len(alone.entries) - copies)
        tail == SubSeq(alone.entries, Len(alone.entries) - copies + 1, Len(alone.entries))
    IN (n >= 1 /\ \A i \in 1..(n - 1) : C6_AcceptedOutright(call.batch[i])) =>
          /\ ret.status = alone.status
          /\ ret.duplicate_count = alone.duplicate_count
          /\ ret.replaced_count = alone.replaced_count
          /\ ret.status = "ok" => entries = kept \o earlier \o tail
          /\ ret.status # "ok" => entries = alone.entries

C10_Unique ==
    \A i, j \in 1..Len(entries) :
        i < j =>
            /\ ~(entries[i].address = entries[j].address /\ ~IsBlock(entries[i]))
            /\ Range(entries[i].names) \cap Range(entries[j].names) = {}
            /\ entries[i] # entries[j]

(***************************************************************************)
(* Lines, as the claims about the file speak of them.                      *)
(***************************************************************************)
IsAddress(token) == is_ipv4(token) \/ is_ipv6(token)

IsCommentLine(line) == startswith(strip(line), "#")
IsBlankLine(line) == strip(line) = <<>>

\* a line that starts with an address
IsRecordLine(line) ==
    ~IsCommentLine(line) /\ ~IsBlankLine(line) /\ IsAddress(split(line)[1])

\* address, whitespace, one or more host names
IsValidRecordLine(line) ==
    /\ IsRecordLine(line)
    /\ Len(split(line)) >= 2
    /\ valid_hostnames(Tail(split(line)))

\* a valid address followed by no name (only a trailing comment, perhaps) or
\* by names that are not host names
IsMalformedRecordLine(line) ==
    /\ IsRecordLine(line)
    /\ LET names == Tail(split(partition_head(line, "#")))
       IN names = <<>> \/ ~valid_hostnames(names)

LineType(line) ==
    IF IsCommentLine(line) THEN "comment"
    ELSE IF IsBlankLine(line) THEN "blank"
    ELSE IF is_ipv6(split(line)[1]) THEN "ipv6"
    ELSE "ipv4"

LinesOf(text) == readlines(<<>>, text)

(***************************************************************************)
(* C7.  Every address entry of the collection, whether it was parsed from  *)
(* the managed file or built by str_to_hostentry from an imported line,    *)
(* has a names list that is not empty.                                     *)
(***************************************************************************)
C7_NamesNotEmpty ==
    \A i \in 1..Len(entries) :
        entries[i].entry_type \in {"ipv4", "ipv6"} =>
            /\ entries[i].names # NoNames
            /\ Len(entries[i].names) >= 1

\* C7 as first stated: ... and the names list holds no name twice
C7_NamesNotEmptyNoRepeat ==
    \A i \in 1..Len(entries) :
        entries[i].entry_type \in {"ipv4", "ipv6"} =>
            /\ entries[i].names # NoNames
            /\ Len(entries[i].names) >= 1
            /\ Cardinality(Range(entries[i].names)) = Len(entries[i].names)

\* an entry parsed from the managed file and an entry imported stand in the collection
C7_Witness ==
    /\ call.op = "import_file"
    /\ ret.status = "ok"
    /\ ret.ipv4_count + ret.ipv6_count = 1
    /\ Len(call.entries) >= 1
    /\ \A i \in 1..Len(call.entries) : call.entries[i].entry_type \in {"ipv4", "ipv6"}
    /\ Len(entries) = Len(call.entries) + 1

(***************************************************************************)
(* C8.  A managed file of comment lines, blank lines and valid record      *)
(* lines is parsed into one entry per line, in order and of the type of    *)
(* the line, and write() straight after the construction writes the lines  *)
(* back in order: a comment as it was, a blank line as a bare newline, a   *)
(* record as its address, a tab, its names separated by one space, and a   *)
(* newline.                                                                *)
(***************************************************************************)
C8_Applies ==
    /\ call.op = "write"
    /\ call.first
    /\ ret.status = "ok"
    /\ \A i \in 1..Len(LinesOf(call.hosts_file)) :
        LET line == LinesOf(call.hosts_file)[i]
        IN IsCommentLine(line) \/ IsBlankLine(line) \/ IsValidRecordLine(line)

C8_OneEntryPerLine ==
    /\ Len(entries) = Len(LinesOf(call.hosts_file))
    /\ \A i \in 1..Len(entries) :
        entries[i].entry_type = LineType(LinesOf(call.hosts_file)[i])

\* the line write() is to give back for a line of the input
C8_Canonical(line) ==
    IF IsCommentLine(line) THEN line
    ELSE IF IsBlankLine(line) THEN <<"\n">>
    ELSE split(line)[1] \o <<"\t">> \o join(<<" ">>, Tail(split(line))) \o <<"\n">>

C8_SameBytes(line) == IF IsBlankLine(line) THEN <<"\n">> ELSE line

RECURSIVE C8_CanonicalText(_)
C8_CanonicalText(lines) ==
    IF lines = <<>> THEN <<>>
    ELSE C8_Canonical(Head(lines)) \o C8_CanonicalText(Tail(lines))

RECURSIVE C8_SameBytesText(_)
C8_SameBytesText(lines) ==
    IF lines = <<>> THEN <<>>
    ELSE C8_SameBytes(Head(lines)) \o C8_SameBytesText(Tail(lines))

C8_WriteBackCanonical ==
    C8_Applies =>
        /\ C8_OneEntryPerLine
        /\ hosts_file = C8_CanonicalText(LinesOf(call.hosts_file))

\* C8 as first stated: byte-equivalent but for the blank lines
C8_WriteBackSameBytes ==
    C8_Applies =>
        /\ C8_OneEntryPerLine
        /\ hosts_file = C8_SameBytesText(LinesOf(call.hosts_file))

\* a file of two lines, one of them a record whose bytes write() changed
C8_Witness ==
    /\ C8_Applies
    /\ Len(LinesOf(call.hosts_file)) = 2
    /\ \E i \in 1..2 : IsValidRecordLine(LinesOf(call.hosts_file)[i])
    /\ hosts_file # call.hosts_file

(***************************************************************************)
(* C9.  A record line with a valid address and no valid name is never      *)
(* fatal: the constructor and import_file do not raise on it, no entry is  *)
(* added for it, and import_file counts it in invalid_count and goes on.   *)
(***************************************************************************)
C9_Malformed(text) ==
    {i \in 1..Len(LinesOf(text)) : IsMalformedRecordLine(LinesOf(text)[i])}

C9_MalformedLineNotFatal ==
    /\ (call.op = "init" /\ call.readable) =>
          /\ ret.status = "ok"
          /\ Len(entries) = Len(LinesOf(hosts_file)) - Cardinality(C9_Malformed(hosts_file))
    /\ (call.op = "import_file" /\ call.readable /\ ret.status # "TypeError") =>
          /\ ret.status = "ok"
          /\ ret.invalid_count = Cardinality(C9_Malformed(call.text))
          /\ Len(entries) <= Len(call.entries) + Len(LinesOf(call.text))
                               - Cardinality(C9_Malformed(call.text))

====
